---- MODULE Spec2Model ----
(***************************************************************************)
(* Resolution-and-aggregation pipeline of the Cerulean-Exchange api:       *)
(*   - Token._update_price      (src/app/assets/model.py)                  *)
(*   - Pair.from_chain / _tvl   (src/app/pairs/model.py)                   *)
(*   - Voters.get_votes_casted  (src/app/voter/model.py)                   *)
(* Python floats are modelled as exact rationals [n, d] in lowest terms.   *)
(***************************************************************************)
EXTENDS Integers, Sequences, FiniteSets, TLC

VARIABLES
    GET_PRICE_INTERNAL_FIRST,   \* settings: which family runs first
    INTERNAL_PRICE_ORDER,       \* settings: ordered internal route types
    EXTERNAL_PRICE_ORDER,       \* settings: ordered external getter names
    world,                      \* what the router and the feeds answer, when held fixed
    assets_json,                \* CACHE["assets:json"], the token registry snapshot
    token_store,                \* walrus Token records, by address
    zero_price_tokens,          \* ModelUteis zero-price diagnostics
    upd,                        \* the Token._update_price call in progress
    routed,                     \* the Token._get_price_through_tokens call under study
    fanout,                     \* the Token.from_tokenlists call: its tasks and its result
    pair_store,                 \* walrus Pair record of the pool
    fc,                         \* the Pair.from_chain call in progress
    cache_total_ids,            \* CACHE["total_ids"]
    voter_chain,                \* what the voter, minter and escrow contracts answer
    votes,                      \* the last Voters.get_votes_casted call
    pairs_data,                 \* what Pairs.serialize() holds: the cached pool records
    tally,                      \* the last Voters.calc_total_votes call
    voters_json,                \* CACHE["voters:json"], the vote-tally snapshot key
    job,                        \* the Voters.sync call in progress
    req                         \* the on_get request / Voters.recache call in progress

settingsVars == <<GET_PRICE_INTERNAL_FIRST, INTERNAL_PRICE_ORDER, EXTERNAL_PRICE_ORDER,
                  world>>
priceVars == <<zero_price_tokens, upd, routed, fanout>>
pairVars == <<pair_store, fc>>
tallyVars == <<pairs_data, tally>>
resourceVars == <<voters_json, job, req>>
voteVars == <<cache_total_ids, voter_chain, votes, tallyVars, resourceVars>>
vars == <<settingsVars, assets_json, token_store, priceVars, pairVars, voteVars>>

-----------------------------------------------------------------------------
(* Float arithmetic, exact.                                                *)

Abs(x) == IF x < 0 THEN -x ELSE x

RECURSIVE GCD(_, _)
GCD(a, b) == IF b = 0 THEN a ELSE GCD(b, a % b)

\* n / d for d > 0, in lowest terms
Frac(n, d) == LET g == GCD(Abs(n), d) IN [n |-> n \div g, d |-> d \div g]

RInt(k) == [n |-> k, d |-> 1]
Zero == RInt(0)
RAdd(a, b) == Frac(a.n * b.d + b.n * a.d, a.d * b.d)
RMul(a, b) == Frac(a.n * b.n, a.d * b.d)
\* a / b for b # 0
RDiv(a, b) == IF b.n > 0 THEN Frac(a.n * b.d, a.d * b.n)
                         ELSE Frac(-(a.n * b.d), a.d * (-b.n))
RPos(a) == a.n > 0

RECURSIVE Pow10(_)
Pow10(k) == IF k = 0 THEN 1 ELSE 10 * Pow10(k - 1)

-----------------------------------------------------------------------------
(* Bounds of the model.                                                    *)

MaxPrice == 2        \* external feeds quote -1 .. MaxPrice
MaxAmount == 2       \* router amounts are 0, 10, .. 10 * MaxAmount
StableDecimals == 1  \* decimals of the reference stable asset in the snapshot
MaxDecimals == 1     \* pool tokens have 0 .. MaxDecimals decimals
MaxReserve == 2      \* raw pool reserves are 0, 50, .. 50 * MaxReserve
MaxIds == 3          \* governance positions with a last-voted time of their own
MaxVotes == 2        \* a gauge's vote weight is 0 .. MaxVotes
MaxPools == 3        \* Pairs.serialize() gives 0 .. MaxPools pool records
MaxRoutes == 3       \* a routed-through set lists 0 .. MaxRoutes intermediates

-----------------------------------------------------------------------------
(* Settings (app.settings) and the token universe.                         *)

STABLE_TOKEN_ADDRESS == "0xstable"
NATIVE_TOKEN_ADDRESS == "0xnative"
AXELAR_BLUECHIPS_ADDRESSES == <<"0xaxl", "">>
BLUECHIP_TOKEN_ADDRESSES == <<"0xblue", "bad">>
IGNORED_TOKEN_ADDRESSES == {"0xign"}

\* Strings that are not "0x" + 40 characters
MalformedAddresses == {"bad"}

\* The tokens _update_price is called on: address and symbol are free text
\* of a token list.
TokenList ==
    { [address |-> STABLE_TOKEN_ADDRESS, symbol |-> "USD", decimals |-> StableDecimals],
      [address |-> "0xign", symbol |-> "IGN", decimals |-> 0],
      [address |-> "0xsym", symbol |-> "0xign", decimals |-> 0] }

\* Pool side: the constituent tokens of the pool and the reward token
TOKEN0_ADDRESS == "0xaaa"
TOKEN1_ADDRESS == "0xbbb"
DEFAULT_TOKEN_ADDRESS == "0xdefault"
PoolTokens == {TOKEN0_ADDRESS, TOKEN1_ADDRESS, DEFAULT_TOKEN_ADDRESS}

Addresses == {t.address : t \in TokenList} \cup PoolTokens

InternalGetters == {"direct", "axelar_bluechips", "bluechip_tokens", "native_token"}
ExternalGetters == {"_get_price_from_dexscreener", "_get_price_from_debank",
                    "_get_price_from_defillama", "_get_price_from_dexguru"}

Configs ==
    { [first |-> TRUE,
       internal |-> <<"direct", "bogus", "native_token">>,
       external |-> <<"_get_price_from_dexscreener", "_get_price_from_defillama">>],
      [first |-> FALSE,
       internal |-> <<"bluechip_tokens", "direct">>,
       external |-> <<"_get_price_from_debank", "unknown", "_get_price_from_dexguru">>],
      [first |-> TRUE,
       internal |-> <<"axelar_bluechips">>,
       external |-> <<"_get_price_from_dexguru">>] }

-----------------------------------------------------------------------------
(* Token records and Token.find.                                           *)

NoToken == [found |-> FALSE, price |-> Zero, decimals |-> 0]
TokenEntry(p, dec) == [found |-> TRUE, price |-> p, decimals |-> dec]

NoSnapshot == [present |-> FALSE, data |-> [a \in Addresses |-> NoToken]]

\* Token.find: the snapshot entry for the address, or None
Token_find(address) ==
    IF address = "" THEN NoToken
    ELSE IF ~assets_json.present THEN NoToken
    ELSE IF address \in DOMAIN assets_json.data THEN assets_json.data[address]
    ELSE NoToken

\* cls.create(**entry) inside Token.find saves the entry as the Token record
StoreAfterFind(store, address) ==
    IF Token_find(address).found /\ address \in DOMAIN store
    THEN [store EXCEPT ![address] = Token_find(address)]
    ELSE store

-----------------------------------------------------------------------------
(* Outcomes of one strategy call.                                          *)

Raise == [kind |-> "raise", val |-> Zero]
Value(r) == [kind |-> "value", val |-> r]

\* Mutant: any price other than 0 is accepted
IsPositive_Truthy(o) == o.kind = "value" /\ o.val # Zero

\* `price > 0` at the call sites
IsPositive(o) == o.kind = "value" /\ RPos(o.val)

Amounts == {10 * k : k \in 0..MaxAmount}
ExtOutcomes == {Raise} \cup {Value(RInt(k)) : k \in (-1)..MaxPrice}

\* What a router read (Call(ROUTER_ADDRESS, getAmountOut ...)()) can give
ChainOutcome(k, a) == [kind |-> k, amount |-> a]
ChainOutcomes == {ChainOutcome(k, 0) : k \in {"revert", "raise", "nontuple"}}
                 \cup {ChainOutcome("amount", a) : a \in Amounts}

-----------------------------------------------------------------------------
(* External strategies: the four feed backends.                            *)

\* What a feed answers: a transport error, a body that is not JSON, JSON without
\* the expected keys, JSON that is not an object, a price that is not a number,
\* or a numeric price
ExtResponse(k, p) == [kind |-> k, price |-> p]
ExtResponses ==
    {ExtResponse(k, 0) : k \in {"transport_error", "malformed_json", "missing_keys",
                                "wrong_payload", "wrong_type_price"}}
    \cup {ExtResponse("price", p) : p \in (-1)..MaxPrice}

\* func() followed by `price > 0`, as far as the try of the caller sees it: the
\* value the backend returned, or an exception of the backend or of the comparison
\* The request URL can be built. DEXGURU_ENDPOINT is ".../tokens/%/market" and
\* is applied with the % operator: "%/" is not a conversion, the operator raises
\* ValueError, which the backend catches with the transport errors.
EndpointFormats(func_name) == func_name # "_get_price_from_dexguru"

_get_price_from(func_name, r) ==
    IF ~EndpointFormats(func_name) THEN Value(Zero)
    ELSE CASE r.kind \in {"transport_error", "malformed_json", "missing_keys"} ->
                Value(Zero)
           [] r.kind = "wrong_payload" ->
                IF func_name = "_get_price_from_defillama" THEN Value(Zero) ELSE Raise
           [] r.kind = "wrong_type_price" ->
                IF func_name = "_get_price_from_dexscreener" THEN Value(Zero) ELSE Raise
           [] OTHER -> Value(RInt(r.price))

-----------------------------------------------------------------------------
(* Internal strategies.                                                    *)

\* _get_direct_price: ContractLogicError gives 0, anything else propagates
_get_direct_price(stablecoin, c) ==
    CASE c.kind = "revert" -> Value(Zero)
      [] c.kind = "amount" -> Value(Frac(c.amount, Pow10(stablecoin.decimals)))
      [] OTHER -> Raise

\* The intermediates of a list that reach the router: non-empty, well formed
RoutedAddresses(token_addresses) ==
    {token_addresses[i] : i \in {j \in 1..Len(token_addresses) :
        /\ token_addresses[j] # ""
        /\ token_addresses[j] \notin MalformedAddresses}}

\* One intermediate's contribution to total_price
RouteContribution(a, stablecoin, route) ==
    IF a = "" \/ a \in MalformedAddresses THEN Zero
    ELSE IF route[a].kind = "amount" /\ route[a].amount > 0
         THEN Frac(route[a].amount, Pow10(stablecoin.decimals))
         ELSE Zero

\* Mutant: a route that fails ends the loop
RECURSIVE SumRoutes_Aborting(_, _, _, _)
SumRoutes_Aborting(token_addresses, i, stablecoin, route) ==
    IF i > Len(token_addresses) THEN Zero
    ELSE IF /\ token_addresses[i] # ""
            /\ token_addresses[i] \notin MalformedAddresses
            /\ route[token_addresses[i]].kind # "amount"
         THEN Zero
         ELSE RAdd(RouteContribution(token_addresses[i], stablecoin, route),
                   SumRoutes_Aborting(token_addresses, i + 1, stablecoin, route))

RECURSIVE SumRoutes(_, _, _, _)
SumRoutes(token_addresses, i, stablecoin, route) ==
    IF i > Len(token_addresses) THEN Zero
    ELSE RAdd(RouteContribution(token_addresses[i], stablecoin, route),
              SumRoutes(token_addresses, i + 1, stablecoin, route))

\* _get_price_through_tokens: the sum over the intermediates, never raising
_get_price_through_tokens(token_addresses, stablecoin, route) ==
    Value(SumRoutes(token_addresses, 1, stablecoin, route))

\* price_getters_mapping of get_price_internal_source
IntermediatesOf(route_type) ==
    CASE route_type = "axelar_bluechips" -> AXELAR_BLUECHIPS_ADDRESSES
      [] route_type = "bluechip_tokens" -> BLUECHIP_TOKEN_ADDRESSES
      [] route_type = "native_token" -> <<NATIVE_TOKEN_ADDRESS>>
      [] OTHER -> <<>>

-----------------------------------------------------------------------------
(* The chain and feed state behind the strategies.                         *)

Intermediates == {"0xaxl", "0xblue", NATIVE_TOKEN_ADDRESS}

\* Answers that change from call to call
FreeWorld == [fixed |-> FALSE,
              direct |-> ChainOutcome("revert", 0),
              route |-> [a \in Intermediates |-> ChainOutcome("revert", 0)],
              ext |-> [f \in ExternalGetters |-> ExtResponse("transport_error", 0)]]

\* Unchanged chain and feed state: every read has one answer
FixedWorlds ==
    [fixed : {TRUE},
     direct : {ChainOutcome("revert", 0), ChainOutcome("amount", 10)},
     route : {[a \in Intermediates |-> c] :
                 c \in {ChainOutcome("raise", 0), ChainOutcome("amount", 10)}},
     ext : [ExternalGetters -> {ExtResponse("transport_error", 0),
                                ExtResponse("price", MaxPrice)}]]

\* What the router can answer to the direct read and to the routes of a list
DirectReads == IF world.fixed THEN {world.direct} ELSE ChainOutcomes
RouteReads(addresses) ==
    IF world.fixed THEN {[a \in addresses |-> world.route[a]]}
    ELSE [addresses -> ChainOutcomes]

\* What the feed of a backend can answer
FeedAnswers(func_name) == IF world.fixed THEN {world.ext[func_name]} ELSE ExtResponses

-----------------------------------------------------------------------------
(* Token._update_price, one step per strategy attempt.                     *)

NoTok == [address |-> "", symbol |-> "", decimals |-> 0]

Pending == [kind |-> "pending", val |-> Zero]

Idle == [pc |-> "idle", token |-> NoTok, fam |-> 0, idx |-> 0, calls |-> <<>>,
         price |-> Zero, stable |-> NoToken, zero_recorded |-> FALSE,
         responses |-> <<>>, ext_return |-> Pending, previous |-> Pending]

\* Mutant: the two families in the other order
FamilyAt_Swapped(k) ==
    IF GET_PRICE_INTERNAL_FIRST
    THEN IF k = 1 THEN "external" ELSE "internal"
    ELSE IF k = 1 THEN "internal" ELSE "external"

\* price_fetching_functions
FamilyAt(k) ==
    IF GET_PRICE_INTERNAL_FIRST
    THEN IF k = 1 THEN "internal" ELSE "external"
    ELSE IF k = 1 THEN "external" ELSE "internal"

\* get_price_internal_source starts at Token.find, the external one at its loop
EntryIdx(family) == IF family = "internal" THEN 0 ELSE 1

\* `self.symbol in IGNORED_TOKEN_ADDRESSES`
IsIgnored(t) == t.symbol \in IGNORED_TOKEN_ADDRESSES

\* A family returned 0: the next family, or no family is left
LeaveFamily(u) ==
    IF u.fam = 1
    THEN [u EXCEPT !.pc = FamilyAt(2), !.fam = 2, !.idx = EntryIdx(FamilyAt(2))]
    ELSE [u EXCEPT !.pc = "exhausted"]

\* Mutant: a positive price is kept but the loop goes on
StrategyStep_NoReturn(u, name, o) ==
    LET logged == Append(u.calls, [name |-> name, family |-> u.pc, result |-> o])
    IN  IF IsPositive(o)
        THEN [u EXCEPT !.calls = logged, !.price = o.val, !.idx = @ + 1]
        ELSE [u EXCEPT !.calls = logged, !.idx = @ + 1]

\* One pass of a family's loop body on the getter's outcome o
StrategyStep(u, name, o) ==
    LET logged == Append(u.calls, [name |-> name, family |-> u.pc, result |-> o])
    IN  IF IsPositive(o)
        THEN [u EXCEPT !.calls = logged, !.price = o.val, !.pc = "finalize"]
        ELSE [u EXCEPT !.calls = logged, !.idx = @ + 1]

UpdatePriceBegin ==
    /\ upd.pc \in {"idle", "done"}
    /\ \E t \in TokenList :
        LET \* the price the run just before returned for the same token, kept
            \* while the chain and feed state is held fixed
            previous == IF world.fixed /\ upd.pc = "done" /\ upd.token = t
                        THEN Value(upd.price) ELSE Pending
        IN  upd' = IF IsIgnored(t)
                   THEN [Idle EXCEPT !.pc = "finalize", !.token = t,
                                     !.previous = previous]
                   ELSE [Idle EXCEPT !.pc = FamilyAt(1), !.token = t, !.fam = 1,
                                     !.idx = EntryIdx(FamilyAt(1)),
                                     !.previous = previous]
    /\ UNCHANGED <<settingsVars, assets_json, token_store, zero_price_tokens,
                   pairVars, voteVars, routed, fanout>>

\* Mutant: the strategies are tried whether or not the stable asset was found
InternalEnter_Unchecked ==
    /\ upd.pc = "internal" /\ upd.idx = 0
    /\ token_store' = StoreAfterFind(token_store, STABLE_TOKEN_ADDRESS)
    /\ upd' = [upd EXCEPT !.stable = Token_find(STABLE_TOKEN_ADDRESS), !.idx = 1]
    /\ UNCHANGED <<settingsVars, assets_json, zero_price_tokens, pairVars, voteVars, routed, fanout>>

\* stablecoin = Token.find(STABLE_TOKEN_ADDRESS)
InternalEnter ==
    /\ upd.pc = "internal" /\ upd.idx = 0
    /\ token_store' = StoreAfterFind(token_store, STABLE_TOKEN_ADDRESS)
    /\ upd' = IF Token_find(STABLE_TOKEN_ADDRESS).found
              THEN [upd EXCEPT !.stable = Token_find(STABLE_TOKEN_ADDRESS), !.idx = 1]
              ELSE LeaveFamily(upd)
    /\ UNCHANGED <<settingsVars, assets_json, zero_price_tokens, pairVars, voteVars, routed, fanout>>

InternalTry ==
    /\ upd.pc = "internal" /\ upd.idx >= 1
    /\ \/ /\ upd.idx > Len(INTERNAL_PRICE_ORDER)
          /\ upd' = LeaveFamily(upd)
       \/ /\ upd.idx <= Len(INTERNAL_PRICE_ORDER)
          /\ INTERNAL_PRICE_ORDER[upd.idx] \notin InternalGetters
          /\ upd' = [upd EXCEPT !.idx = @ + 1]
       \/ /\ upd.idx <= Len(INTERNAL_PRICE_ORDER)
          /\ INTERNAL_PRICE_ORDER[upd.idx] = "direct"
          /\ \E c \in DirectReads :
                upd' = StrategyStep(upd, "direct", _get_direct_price(upd.stable, c))
       \/ /\ upd.idx <= Len(INTERNAL_PRICE_ORDER)
          /\ INTERNAL_PRICE_ORDER[upd.idx] \in InternalGetters \ {"direct"}
          /\ LET route_type == INTERNAL_PRICE_ORDER[upd.idx]
                 token_addresses == IntermediatesOf(route_type)
             IN  \E route \in RouteReads(RoutedAddresses(token_addresses)) :
                    upd' = StrategyStep(upd, route_type,
                             _get_price_through_tokens(token_addresses, upd.stable, route))
    /\ UNCHANGED <<settingsVars, assets_json, token_store, zero_price_tokens,
                   pairVars, voteVars, routed, fanout>>

ExternalTry ==
    /\ upd.pc = "external"
    /\ \/ /\ upd.idx > Len(EXTERNAL_PRICE_ORDER)
          /\ upd' = [LeaveFamily(upd) EXCEPT !.ext_return = Value(Zero)]
       \/ /\ upd.idx <= Len(EXTERNAL_PRICE_ORDER)
          /\ EXTERNAL_PRICE_ORDER[upd.idx] \notin ExternalGetters
          /\ upd' = [upd EXCEPT !.idx = @ + 1]
       \/ /\ upd.idx <= Len(EXTERNAL_PRICE_ORDER)
          /\ EXTERNAL_PRICE_ORDER[upd.idx] \in ExternalGetters
          /\ \E r \in FeedAnswers(EXTERNAL_PRICE_ORDER[upd.idx]) :
                LET func_name == EXTERNAL_PRICE_ORDER[upd.idx]
                    o == _get_price_from(func_name, r)
                    next == StrategyStep(upd, func_name, o)
                IN  upd' = [next EXCEPT
                              !.responses = Append(@, r),
                              !.ext_return = IF next.pc = "finalize" THEN Value(o.val)
                                             ELSE @]
    /\ UNCHANGED <<settingsVars, assets_json, token_store, zero_price_tokens,
                   pairVars, voteVars, routed, fanout>>

\* Mutant: the exhausted token is finalized without being recorded
ZeroPrice_NotRecorded ==
    /\ upd.pc = "exhausted"
    /\ upd' = [upd EXCEPT !.pc = "finalize", !.price = Zero]
    /\ UNCHANGED <<settingsVars, assets_json, token_store, zero_price_tokens,
                   pairVars, voteVars, routed, fanout>>

\* ModelUteis.add_zero_price_token(self), then _finalize_update(0, ...)
ZeroPrice ==
    /\ upd.pc = "exhausted"
    /\ zero_price_tokens' = zero_price_tokens \cup {upd.token.address}
    /\ upd' = [upd EXCEPT !.pc = "finalize", !.price = Zero, !.zero_recorded = TRUE]
    /\ UNCHANGED <<settingsVars, assets_json, token_store, pairVars, voteVars, routed, fanout>>

\* _finalize_update: self.price = price; self.save(); return self.price
FinalizeUpdate ==
    /\ upd.pc = "finalize"
    /\ token_store' = [token_store EXCEPT ![upd.token.address] =
                          TokenEntry(upd.price, upd.token.decimals)]
    /\ upd' = [upd EXCEPT !.pc = "done"]
    /\ UNCHANGED <<settingsVars, assets_json, zero_price_tokens, pairVars, voteVars, routed, fanout>>

\* A call of _get_price_through_tokens on a list and the routes the router gives
NoRouted == [pc |-> "idle", token_addresses |-> <<>>,
             route |-> [a \in {} |-> ChainOutcome("raise", 0)],
             stablecoin |-> NoToken, price |-> Raise]

PriceThroughTokens ==
    /\ routed.pc = "called"
    /\ routed' = [routed EXCEPT
                     !.pc = "returned",
                     !.price = _get_price_through_tokens(routed.token_addresses,
                                                         routed.stablecoin, routed.route)]
    /\ UNCHANGED <<settingsVars, assets_json, token_store, zero_price_tokens, upd,
                   pairVars, voteVars, fanout>>

\* Between two resolutions the token registry snapshot is written to the cache
WriteSnapshot ==
    /\ upd.pc \in {"idle", "done"}
    /\ ~assets_json.present
    /\ assets_json' = [present |-> TRUE,
                       data |-> [[a \in Addresses |-> NoToken]
                                   EXCEPT ![STABLE_TOKEN_ADDRESS] =
                                             TokenEntry(RInt(1), StableDecimals)]]
    /\ UNCHANGED <<settingsVars, token_store, priceVars, pairVars, voteVars>>

-----------------------------------------------------------------------------
(* Token.from_tokenlists: one task per token list, collected as they end.  *)

\* The configured token lists and the descriptors each document holds; a
\* descriptor of another chain, or of an ignored address, is not valid
TOKENLISTS == {"listA", "listB", "listC"}

TokenData(address, valid) == [address |-> address, valid |-> valid]

TokensOf(tlist) ==
    CASE tlist = "listA" -> <<TokenData("0xa1", TRUE), TokenData("0xa2", FALSE)>>
      [] tlist = "listB" -> <<TokenData("0xb1", TRUE)>>
      [] OTHER -> <<TokenData("0xc1", TRUE), TokenData("0xc2", TRUE)>>

\* A Token object of a task: created, then resolved by _update_price
ListedToken(address, resolved, price) ==
    [address |-> address, resolved |-> resolved, price |-> price]

QueuedTask == [pc |-> "queued", idx |-> 0, tokens |-> <<>>, collected |-> FALSE]

NoFanout == [pc |-> "idle", tasks |-> [l \in TOKENLISTS |-> QueuedTask],
             all_tokens |-> <<>>]

\* Mutant: a future is taken as soon as its task has started
IsCompleted_Started(task) == task.pc # "queued"

\* What as_completed yields: a future whose task returned or raised
IsCompleted(task) == task.pc \in {"done", "failed"}

\* from_tokenlists -> _fetch_all_tokens: executor.submit for every list
FromTokenlists ==
    /\ fanout.pc \in {"idle", "returned"}
    /\ fanout' = [NoFanout EXCEPT !.pc = "collecting"]
    /\ UNCHANGED <<settingsVars, assets_json, token_store, zero_price_tokens, upd,
                   routed, pairVars, voteVars>>

\* _fetch_tokenlist: requests.get(tlist).json(); a transport or JSON error is
\* caught and the task returns no token, anything else raises out of the task
FetchTokenlist ==
    /\ fanout.pc = "collecting"
    /\ \E l \in TOKENLISTS :
          /\ fanout.tasks[l].pc = "queued"
          /\ \/ fanout' = [fanout EXCEPT !.tasks[l].pc = "running", !.tasks[l].idx = 1]
             \/ fanout' = [fanout EXCEPT !.tasks[l].pc = "done"]
             \/ fanout' = [fanout EXCEPT !.tasks[l].pc = "failed"]
    /\ UNCHANGED <<settingsVars, assets_json, token_store, zero_price_tokens, upd,
                   routed, pairVars, voteVars>>

\* The loop of _fetch_tokenlist on the next descriptor: skipped when not valid,
\* else cls.create(...) of _create_and_update_token; after the last one the task
\* returns its tokens
TaskCreateToken ==
    /\ fanout.pc = "collecting"
    /\ \E l \in TOKENLISTS :
          LET task == fanout.tasks[l]
          IN  /\ task.pc = "running"
              /\ fanout' =
                   IF task.idx > Len(TokensOf(l))
                   THEN [fanout EXCEPT !.tasks[l].pc = "done"]
                   ELSE IF ~TokensOf(l)[task.idx].valid
                   THEN [fanout EXCEPT !.tasks[l].idx = @ + 1]
                   ELSE [fanout EXCEPT
                           !.tasks[l].pc = "updating",
                           !.tasks[l].tokens =
                              Append(@, ListedToken(TokensOf(l)[task.idx].address,
                                                    FALSE, Zero))]
    /\ UNCHANGED <<settingsVars, assets_json, token_store, zero_price_tokens, upd,
                   routed, pairVars, voteVars>>

\* token._update_price() of _create_and_update_token, then tokens.append(token):
\* the token ends resolved or exhausted, or an exception leaves the task
TaskUpdatePrice ==
    /\ fanout.pc = "collecting"
    /\ \E l \in TOKENLISTS :
          LET task == fanout.tasks[l]
              last == Len(task.tokens)
          IN  /\ task.pc = "updating"
              /\ \/ \E p \in {0, MaxPrice} :
                       fanout' = [fanout EXCEPT
                                    !.tasks[l].pc = "running",
                                    !.tasks[l].idx = @ + 1,
                                    !.tasks[l].tokens[last] =
                                       ListedToken(task.tokens[last].address, TRUE, RInt(p))]
                 \/ fanout' = [fanout EXCEPT !.tasks[l].pc = "failed"]
    /\ UNCHANGED <<settingsVars, assets_json, token_store, zero_price_tokens, upd,
                   routed, pairVars, voteVars>>

\* The as_completed loop: all_tokens.extend(future.result()), or the exception
\* of the task is logged
CollectFuture ==
    /\ fanout.pc = "collecting"
    /\ \E l \in TOKENLISTS :
          LET task == fanout.tasks[l]
          IN  /\ IsCompleted(task)
              /\ ~task.collected
              /\ fanout' = [fanout EXCEPT
                              !.tasks[l].collected = TRUE,
                              !.all_tokens = IF task.pc = "failed" THEN @
                                             ELSE @ \o task.tokens]
    /\ UNCHANGED <<settingsVars, assets_json, token_store, zero_price_tokens, upd,
                   routed, pairVars, voteVars>>

\* Every future was yielded: the executor is left and all_tokens returned
ReturnAllTokens ==
    /\ fanout.pc = "collecting"
    /\ \A l \in TOKENLISTS : fanout.tasks[l].collected
    /\ fanout' = [fanout EXCEPT !.pc = "returned"]
    /\ UNCHANGED <<settingsVars, assets_json, token_store, zero_price_tokens, upd,
                   routed, pairVars, voteVars>>

-----------------------------------------------------------------------------
(* Pair.from_chain: pool refresh, TVL and APR.                             *)

ADDRESS_ZERO == "0x0000"
NONE == "None"
LIVE_GAUGE == "0xgauge"

RawReserves == {50 * k : k \in 0..MaxReserve}

\* What pair_multi() returns for the pool
PoolReads ==
    [reserve0 : RawReserves, reserve1 : RawReserves,
     token0_address : {TOKEN0_ADDRESS}, token1_address : {TOKEN1_ADDRESS},
     gauge_address : {ADDRESS_ZERO, NONE, LIVE_GAUGE}]

\* What Gauge.from_chain(address) gives: a gauge with its reward, None, or an error
GaugeOutcome(k, r) == [kind |-> k, reward |-> r]
NoGauge == GaugeOutcome("none", 0)
GaugeOutcomes == {NoGauge, GaugeOutcome("raise", 0)}
                 \cup {GaugeOutcome("gauge", r) : r \in {0, 10}}

NoPair == [exists |-> FALSE, reserve0 |-> Zero, reserve1 |-> Zero,
           token0_address |-> "", token1_address |-> "", gauge_address |-> NONE,
           tvl |-> Zero, apr |-> Zero]

\* Mutant: the doubling is applied whenever the sum is not 0
_tvl_AlwaysDoubled(pool_data, token0, token1) ==
    LET part0 == IF token0.found /\ token0.price # Zero
                 THEN RMul(pool_data.reserve0, token0.price) ELSE Zero
        part1 == IF token1.found /\ token1.price # Zero
                 THEN RMul(pool_data.reserve1, token1.price) ELSE Zero
        tvl == RAdd(part0, part1)
    IN  IF token0.found /\ token1.found /\ tvl # Zero
        THEN RMul(tvl, RInt(2))
        ELSE tvl

\* Pair._tvl
_tvl(pool_data, token0, token1) ==
    LET part0 == IF token0.found /\ token0.price # Zero
                 THEN RMul(pool_data.reserve0, token0.price) ELSE Zero
        part1 == IF token1.found /\ token1.price # Zero
                 THEN RMul(pool_data.reserve1, token1.price) ELSE Zero
        tvl == RAdd(part0, part1)
    IN  IF /\ token0.found /\ token1.found /\ tvl # Zero
           /\ (token0.price = Zero \/ token1.price = Zero)
        THEN RMul(tvl, RInt(2))
        ELSE tvl

\* data["reserveN"] after `if token0 and token1:`
NormalizedReserve(raw, token, token0, token1) ==
    IF token0.found /\ token1.found
    THEN Frac(raw, Pow10(token.decimals))
    ELSE RInt(raw)

\* Mutant: the zero address is stored as it came
NormalizedGauge_Kept(gauge_address) == gauge_address

\* data["gauge_address"] after the sentinel test of from_chain
NormalizedGauge(gauge_address) ==
    IF gauge_address \in {ADDRESS_ZERO, NONE} THEN NONE ELSE gauge_address

\* Mutant: a pool without TVL is skipped before the gauge is read
SkipsGauge_OrNoTvl(pair) ==
    pair.gauge_address \in {ADDRESS_ZERO, NONE} \/ pair.tvl = Zero

\* The early return of syncup_gauge
SkipsGauge(pair) == pair.gauge_address \in {ADDRESS_ZERO, NONE}

\* Mutant: the daily rate is stored
AprOf_Daily(reward, token_price, tvl) ==
    RMul(RDiv(RMul(RInt(reward), token_price), tvl), RInt(100))

\* daily_apr * 365 of _update_apr, for tvl # 0
AprOf(reward, token_price, tvl) ==
    RMul(RMul(RDiv(RMul(RInt(reward), token_price), tvl), RInt(100)), RInt(365))

IdleRefresh == [pc |-> "idle",
                chain |-> [reserve0 |-> 0, reserve1 |-> 0,
                           token0_address |-> TOKEN0_ADDRESS,
                           token1_address |-> TOKEN1_ADDRESS,
                           gauge_address |-> NONE],
                token0 |-> NoToken, token1 |-> NoToken,
                data |-> NoPair, gauge |-> NoGauge, gauge_read |-> FALSE,
                reward_token |-> NoToken]

\* from_chain up to and including query_delete; pair_multi() failing, or a
\* field it leaves unavailable, raises out of from_chain before anything is
\* written
FromChainBegin ==
    /\ fc.pc \in {"idle", "done", "raised", "read_failed"}
    /\ \/ /\ fc' = [fc EXCEPT !.pc = "read_failed"]
          /\ UNCHANGED <<pair_store, token_store>>
       \/ /\ \E chain \in PoolReads :
                LET token0 == Token_find(chain.token0_address)
                    token1 == Token_find(chain.token1_address)
                    reserves == [reserve0 |-> NormalizedReserve(chain.reserve0, token0,
                                                                token0, token1),
                                 reserve1 |-> NormalizedReserve(chain.reserve1, token1,
                                                                token0, token1)]
                    data == [exists |-> TRUE,
                             reserve0 |-> reserves.reserve0,
                             reserve1 |-> reserves.reserve1,
                             token0_address |-> chain.token0_address,
                             token1_address |-> chain.token1_address,
                             gauge_address |-> NormalizedGauge(chain.gauge_address),
                             tvl |-> _tvl(reserves, token0, token1),
                             apr |-> Zero]
                IN  /\ fc' = [IdleRefresh EXCEPT !.pc = "create", !.chain = chain,
                                                 !.token0 = token0, !.token1 = token1,
                                                 !.data = data]
                    /\ token_store' = StoreAfterFind(
                                         StoreAfterFind(token_store, chain.token0_address),
                                         chain.token1_address)
          /\ pair_store' = NoPair
    /\ UNCHANGED <<settingsVars, assets_json, priceVars, voteVars>>

\* pair = cls.create(**data): apr takes the field default
FromChainCreate ==
    /\ fc.pc = "create"
    /\ pair_store' = fc.data
    /\ fc' = [fc EXCEPT !.pc = "syncup"]
    /\ UNCHANGED <<settingsVars, assets_json, token_store, priceVars, voteVars>>

\* pair.syncup_gauge(), with _update_apr
SyncupGauge ==
    /\ fc.pc = "syncup"
    /\ \/ /\ SkipsGauge(fc.data)
          /\ fc' = [fc EXCEPT !.pc = "done"]
          /\ UNCHANGED <<pair_store, token_store>>
       \/ /\ ~SkipsGauge(fc.data)
          /\ fc' = [fc EXCEPT !.pc = "raised", !.gauge_read = TRUE,
                              !.gauge = GaugeOutcome("raise", 0)]
          /\ UNCHANGED <<pair_store, token_store>>
       \/ /\ ~SkipsGauge(fc.data)
          /\ fc.data.tvl = Zero
          /\ \E gauge \in GaugeOutcomes \ {GaugeOutcome("raise", 0)} :
                fc' = [fc EXCEPT !.pc = "done", !.gauge_read = TRUE, !.gauge = gauge]
          /\ UNCHANGED <<pair_store, token_store>>
       \/ /\ ~SkipsGauge(fc.data)
          /\ fc.data.tvl # Zero
          /\ \E gauge \in GaugeOutcomes \ {GaugeOutcome("raise", 0)} :
                LET token == Token_find(DEFAULT_TOKEN_ADDRESS)
                    apr == IF token.found /\ gauge.kind = "gauge"
                           THEN AprOf(gauge.reward, token.price, fc.data.tvl)
                           ELSE fc.data.apr
                IN  /\ fc' = [fc EXCEPT !.pc = "done", !.gauge_read = TRUE,
                                        !.gauge = gauge, !.reward_token = token,
                                        !.data = [@ EXCEPT !.apr = apr]]
                    /\ pair_store' = [fc.data EXCEPT !.apr = apr]
                    /\ token_store' = StoreAfterFind(token_store, DEFAULT_TOKEN_ADDRESS)
    /\ UNCHANGED <<settingsVars, assets_json, priceVars, voteVars>>

-----------------------------------------------------------------------------
(* Voters.get_votes_casted.                                                *)

DefaultTotalIds == 63
FallbackVotesCasted == 9980

\* The active period is 1: a position last voted before it, at it or after it
ActivePeriods == {1}
Timestamps == {0, 1, 2}
Balances == {1, 2}
FailPoints == {"none", "initial", "total_ids", "last_voted", "balance", "sum"}

NoIds == [present |-> FALSE, value |-> 0]
CachedIds(n) == [present |-> TRUE, value |-> n]

\* Voters.get_total_ids: the cached count, or 63
get_total_ids == IF cache_total_ids.present THEN cache_total_ids.value
                 ELSE DefaultTotalIds

\* lastVoted(id) and balanceOfNFT(id) on the chain; ids past MaxIds share one value
ChainLastVoted(chain, id) == IF id <= MaxIds THEN chain.last_voted[id] ELSE chain.rest_voted
ChainBalance(chain, id) == IF id <= MaxIds THEN chain.balance[id] ELSE 1

\* Mutant: a vote cast exactly at the epoch boundary is left out
VotedThisEpoch_Strict(last_voted, active_period) == last_voted > active_period

\* The filter of balance_calls
VotedThisEpoch(last_voted, active_period) == last_voted >= active_period

RECURSIVE SumBalances(_, _)
SumBalances(chain, ids) ==
    IF ids = {} THEN 0
    ELSE LET id == CHOOSE x \in ids : TRUE
         IN  ChainBalance(chain, id) + SumBalances(chain, ids \ {id})

NoChain == [total_ids |-> 0, active_period |-> 1,
            last_voted |-> [i \in 1..MaxIds |-> 0],
            rest_voted |-> 0, balance |-> [i \in 1..MaxIds |-> 0]]

\* length() of the voter contract: the live count of positions
LiveCounts == {MaxIds - 1, MaxIds}

VoterChains ==
    [total_ids : LiveCounts,
     active_period : ActivePeriods,
     last_voted : [1..MaxIds -> Timestamps],
     rest_voted : {0, 2},
     balance : [1..MaxIds -> Balances]]

\* What the call before this one returned, and whether it began with no
\* 'total_ids' key in the cache
NoPrevious == [kind |-> "none", failed |-> FALSE, uncached |-> FALSE,
               votes_casted |-> 0, voted_ids |-> <<>>]

NoVotes == [pc |-> "idle", fail |-> "none", total_ids |-> 0,
            last_voted_calls |-> {}, balance_calls |-> {}, stage |-> 0,
            votes_casted |-> 0, voted_ids |-> <<>>,
            uncached |-> FALSE, previous |-> NoPrevious]

PreviousOf(v) ==
    IF v.pc = "idle" THEN NoPrevious
    ELSE [kind |-> "result", failed |-> v.fail # "none", uncached |-> v.uncached,
          votes_casted |-> v.votes_casted, voted_ids |-> v.voted_ids]

\* Mutant: the count of the chain is stored for the next call
CacheDefault_Live(chain) == CachedIds(chain.total_ids)

\* CACHE.set('total_ids', 63)
CacheDefault(chain) == CachedIds(DefaultTotalIds)

\* Mutant: the handler hands back what was computed so far
Fallback_Partial(v) == [v EXCEPT !.pc = "fallback",
                                 !.voted_ids = [id \in v.balance_calls |-> 0]]

\* except Exception: the fixed count and no positions
Fallback(v) == [v EXCEPT !.pc = "fallback", !.votes_casted = FallbackVotesCasted,
                         !.voted_ids = <<>>]

\* The body of get_votes_casted: the result and the side effect on the cache
get_votes_casted ==
    \E fail \in FailPoints :
        LET chain == voter_chain
            start == [NoVotes EXCEPT !.fail = fail,
                                     !.uncached = ~cache_total_ids.present,
                                     !.previous = PreviousOf(votes)]
            \* initial_data['total_ids'] (chain.total_ids) is read and not used
            total_ids == get_total_ids
            ids == 1..total_ids
            voted == {id \in ids :
                        VotedThisEpoch(ChainLastVoted(chain, id), chain.active_period)}
            stage1 == [start EXCEPT !.stage = 1, !.total_ids = total_ids]
            stage2 == [stage1 EXCEPT !.stage = 2, !.last_voted_calls = ids]
            stage3 == [stage2 EXCEPT !.stage = 3, !.balance_calls = voted]
        IN  \/ /\ fail = "initial"
               /\ votes' = Fallback(start)
               /\ UNCHANGED cache_total_ids
            \/ /\ fail = "total_ids"
               /\ votes' = Fallback([start EXCEPT !.stage = 1])
               /\ UNCHANGED cache_total_ids
            \/ /\ fail \notin {"initial", "total_ids"}
               /\ cache_total_ids' = IF cache_total_ids.present THEN cache_total_ids
                                      ELSE CacheDefault(chain)
               /\ votes' = CASE fail = "last_voted" -> Fallback(stage2)
                              [] fail \in {"balance", "sum"} -> Fallback(stage3)
                              [] OTHER ->
                                   [stage3 EXCEPT
                                      !.pc = "returned",
                                      !.votes_casted = SumBalances(chain, voted),
                                      !.voted_ids = [id \in voted |-> ChainBalance(chain, id)]]

GetVotesCasted ==
    /\ get_votes_casted
    /\ UNCHANGED <<settingsVars, assets_json, token_store, priceVars, pairVars>>
    /\ UNCHANGED <<voter_chain, tallyVars, resourceVars>>

-----------------------------------------------------------------------------
(* Voters.calc_total_votes.                                                *)

\* The shapes of a pool record of Pairs.serialize(): no 'gauge' key, a gauge
\* without 'votes', a gauge with numeric votes, votes that float() rejects, a
\* 'gauge' that is None
PoolRecord(shape, v) == [shape |-> shape, votes |-> v]
PoolRecords == {PoolRecord(sh, 0) : sh \in {"nogauge", "novotes", "badvotes", "badgauge"}}
               \cup {PoolRecord("votes", v) : v \in 0..MaxVotes}

\* `'gauge' in pair and 'votes' in pair['gauge']`: TRUE, FALSE or a TypeError
HasVotes(pair) ==
    CASE pair.shape = "nogauge" -> [raises |-> FALSE, value |-> FALSE]
      [] pair.shape = "novotes" -> [raises |-> FALSE, value |-> FALSE]
      [] pair.shape = "badgauge" -> [raises |-> TRUE, value |-> FALSE]
      [] OTHER -> [raises |-> FALSE, value |-> TRUE]

\* float(pair['gauge']['votes'])
FloatVotes(pair) ==
    IF pair.shape = "votes" THEN [raises |-> FALSE, value |-> pair.votes]
    ELSE [raises |-> TRUE, value |-> 0]

\* The for loop of calc_total_votes from record i on, total_votes so far
RECURSIVE SumVotes(_, _, _)
SumVotes(data, i, total_votes) ==
    IF i > Len(data) THEN [raises |-> FALSE, value |-> total_votes]
    ELSE IF HasVotes(data[i]).raises THEN [raises |-> TRUE, value |-> 0]
    ELSE IF ~HasVotes(data[i]).value THEN SumVotes(data, i + 1, total_votes)
    ELSE IF FloatVotes(data[i]).raises THEN [raises |-> TRUE, value |-> 0]
    ELSE SumVotes(data, i + 1, total_votes + FloatVotes(data[i]).value)

NoTally == [pc |-> "idle", serialize_raised |-> FALSE, total_votes |-> 0]

\* calc_total_votes: the sum, or 0 from the except handler
calc_total_votes(serialize_raises) ==
    IF serialize_raises \/ SumVotes(pairs_data, 1, 0).raises
    THEN [pc |-> "returned", serialize_raised |-> serialize_raises, total_votes |-> 0]
    ELSE [pc |-> "returned", serialize_raised |-> FALSE,
          total_votes |-> SumVotes(pairs_data, 1, 0).value]

CalcTotalVotes ==
    /\ \E serialize_raises \in BOOLEAN : tally' = calc_total_votes(serialize_raises)
    /\ UNCHANGED <<settingsVars, assets_json, token_store, priceVars, pairVars>>
    /\ UNCHANGED <<cache_total_ids, voter_chain, votes, pairs_data, resourceVars>>

-----------------------------------------------------------------------------
(* The voters:json key and its writers.                                    *)

NoVoters == [total_votes |-> 0, votes_casted |-> 0, voted_ids |-> <<>>]
NoKey == [present |-> FALSE, value |-> NoVoters, ttl |-> FALSE]
IdleJob == [pc |-> "idle", voters |-> NoVoters]
\* falcon.HTTP_200; a handler that raised set no status
HTTP_200 == "200 OK"
NoStatus == "none"

\* handler: "on_get" while a request is served, "recache" for a call of recache
\* on its own
IdleReq == [pc |-> "idle", voters |-> NoVoters, media |-> NoVoters,
            handler |-> "none", status |-> NoStatus]

\* Mutant: a failed votes-cast computation leaves its two fields out
VotersOf_Omitting(t, v) ==
    IF v.pc = "fallback" THEN [total_votes |-> t.total_votes]
    ELSE [total_votes |-> t.total_votes, votes_casted |-> v.votes_casted,
          voted_ids |-> v.voted_ids]

\* The dict both writers build from the two computations
VotersOf(t, v) == [total_votes |-> t.total_votes, votes_casted |-> v.votes_casted,
                   voted_ids |-> v.voted_ids]

\* The except branch of recache
RecacheFallback == [total_votes |-> 0, votes_casted |-> FallbackVotesCasted,
                    voted_ids |-> <<>>]

\* Mutant: only the total is written into the stored snapshot
CacheSet_Patched(key, value) ==
    IF key.present THEN [key EXCEPT !.value.total_votes = value.total_votes, !.ttl = FALSE]
    ELSE [present |-> TRUE, value |-> value, ttl |-> FALSE]

\* CACHE.set(CACHE_KEY, json.dumps(value)): the whole value, any expiry dropped
CacheSet(key, value) == [present |-> TRUE, value |-> value, ttl |-> FALSE]

\* CACHE.expire(CACHE_KEY, TOKEN_CACHE_EXPIRATION)
CacheExpire(key) == IF key.present THEN [key EXCEPT !.ttl = TRUE] ELSE key

\* sync: total_votes = calc_total_votes(); votes_casted_data = get_votes_casted()
SyncCompute ==
    /\ job.pc \in {"idle", "done", "raised"}
    /\ \E serialize_raises \in BOOLEAN : tally' = calc_total_votes(serialize_raises)
    /\ get_votes_casted
    /\ job' = [pc |-> "set", voters |-> VotersOf(tally', votes')]
    /\ UNCHANGED <<settingsVars, assets_json, token_store, priceVars, pairVars>>
    /\ UNCHANGED <<voter_chain, pairs_data, voters_json, req>>

\* sync: CACHE.set(...), which raises when the cache cannot be reached
SyncSet ==
    /\ job.pc = "set"
    /\ \/ /\ voters_json' = CacheSet(voters_json, job.voters)
          /\ job' = [job EXCEPT !.pc = "expire"]
       \/ /\ job' = [job EXCEPT !.pc = "raised"]
          /\ UNCHANGED voters_json
    /\ UNCHANGED <<settingsVars, assets_json, token_store, priceVars, pairVars>>
    /\ UNCHANGED <<cache_total_ids, voter_chain, votes, tallyVars, req>>

\* sync: CACHE.expire(...)
SyncExpire ==
    /\ job.pc = "expire"
    /\ voters_json' = CacheExpire(voters_json)
    /\ job' = [job EXCEPT !.pc = "done"]
    /\ UNCHANGED <<settingsVars, assets_json, token_store, priceVars, pairVars>>
    /\ UNCHANGED <<cache_total_ids, voter_chain, votes, tallyVars, req>>

\* on_get up to the decision to recache: CACHE.get, outside any try, answers or
\* raises when the cache cannot be reached
OnGet ==
    /\ req.pc \in {"idle", "responded", "raised"}
    /\ \/ req' = IF voters_json.present /\ voters_json.value.total_votes # 0
                 THEN [IdleReq EXCEPT !.pc = "responded", !.handler = "on_get",
                                      !.media = voters_json.value, !.status = HTTP_200]
                 ELSE [IdleReq EXCEPT !.pc = "recache", !.handler = "on_get"]
       \/ req' = [IdleReq EXCEPT !.pc = "raised", !.handler = "on_get"]
    /\ UNCHANGED <<settingsVars, assets_json, token_store, priceVars, pairVars>>
    /\ UNCHANGED <<cache_total_ids, voter_chain, votes, tallyVars, voters_json, job>>

\* recache, called by on_get or on its own: the two computations
RecacheCompute ==
    /\ req.pc \in {"idle", "responded", "raised", "recache"}
    /\ \E serialize_raises \in BOOLEAN : tally' = calc_total_votes(serialize_raises)
    /\ get_votes_casted
    /\ req' = [IdleReq EXCEPT !.pc = "set", !.voters = VotersOf(tally', votes'),
                              !.handler = IF req.pc = "recache" THEN "on_get"
                                          ELSE "recache"]
    /\ UNCHANGED <<settingsVars, assets_json, token_store, priceVars, pairVars>>
    /\ UNCHANGED <<voter_chain, pairs_data, voters_json, job>>

\* on_get after recache: resp.media = voters_json; resp.status = HTTP_200
StatusAfter(r) == IF r.handler = "on_get" THEN HTTP_200 ELSE NoStatus

\* recache: CACHE.set(...) and return voters, or the except branch
RecacheSet ==
    /\ req.pc = "set"
    /\ \/ /\ voters_json' = CacheSet(voters_json, req.voters)
          /\ req' = [req EXCEPT !.pc = "responded", !.media = req.voters,
                                !.status = StatusAfter(req)]
       \/ /\ req' = [req EXCEPT !.pc = "responded", !.media = RecacheFallback,
                                !.status = StatusAfter(req)]
          /\ UNCHANGED voters_json
    /\ UNCHANGED <<settingsVars, assets_json, token_store, priceVars, pairVars>>
    /\ UNCHANGED <<cache_total_ids, voter_chain, votes, tallyVars, job>>

\* The cache store drops a key whose expiry has passed
KeyExpires ==
    /\ voters_json.present /\ voters_json.ttl
    /\ voters_json' = NoKey
    /\ UNCHANGED <<settingsVars, assets_json, token_store, priceVars, pairVars>>
    /\ UNCHANGED <<cache_total_ids, voter_chain, votes, tallyVars, job, req>>

VotersIdle ==
    /\ tally = NoTally
    /\ voters_json = NoKey
    /\ job = IdleJob
    /\ req = IdleReq

-----------------------------------------------------------------------------
(* Specifications, one per component of the pipeline.                      *)

NoTokens == [a \in Addresses |-> NoToken]

Configured(c) ==
    /\ GET_PRICE_INTERNAL_FIRST = c.first
    /\ INTERNAL_PRICE_ORDER = c.internal
    /\ EXTERNAL_PRICE_ORDER = c.external

DefaultConfig == CHOOSE c \in Configs : c.first /\ Len(c.internal) = 3

\* Snapshots the resolver can meet: none yet, one without the reference stable
\* asset, one with it
ResolverSnapshots ==
    {NoSnapshot, [present |-> TRUE, data |-> NoTokens],
     [present |-> TRUE,
      data |-> [NoTokens EXCEPT ![STABLE_TOKEN_ADDRESS] =
                                  TokenEntry(RInt(1), StableDecimals)]]}

\* Snapshots the pool refresh can meet: each pool token absent, or resolved to a
\* price >= 0
PoolPrices(a) ==
    CASE a = TOKEN0_ADDRESS -> {0, 2, 5}
      [] a = TOKEN1_ADDRESS -> {0, 3}
      [] OTHER -> {0, 5}
PoolDecimals(a) == IF a = DEFAULT_TOKEN_ADDRESS THEN {0} ELSE 0..MaxDecimals
PoolEntries(a) ==
    {NoToken} \cup {TokenEntry(RInt(p), dec) : p \in PoolPrices(a), dec \in PoolDecimals(a)}
PoolSnapshots ==
    {NoSnapshot} \cup
    {[present |-> TRUE,
      data |-> [a \in Addresses |-> IF a \in PoolTokens THEN d[a] ELSE NoToken]] :
        d \in {f \in [PoolTokens -> UNION {PoolEntries(a) : a \in PoolTokens}] :
                 \A a \in PoolTokens : f[a] \in PoolEntries(a)}}

InitPrice ==
    /\ \E c \in Configs : Configured(c)
    /\ world = FreeWorld
    /\ assets_json \in ResolverSnapshots
    /\ token_store = NoTokens
    /\ zero_price_tokens = {}
    /\ upd = Idle
    /\ routed = NoRouted
    /\ fanout = NoFanout
    /\ pair_store = NoPair
    /\ fc = IdleRefresh
    /\ cache_total_ids = NoIds
    /\ voter_chain = NoChain
    /\ votes = NoVotes
    /\ pairs_data = <<>>
    /\ VotersIdle

NextPrice ==
    \/ UpdatePriceBegin
    \/ InternalEnter
    \/ InternalTry
    \/ ExternalTry
    \/ ZeroPrice
    \/ FinalizeUpdate

SpecPrice == InitPrice /\ [][NextPrice]_vars

InitPair ==
    /\ Configured(DefaultConfig)
    /\ world = FreeWorld
    /\ assets_json \in PoolSnapshots
    /\ token_store = NoTokens
    /\ zero_price_tokens = {}
    /\ upd = Idle
    /\ routed = NoRouted
    /\ fanout = NoFanout
    /\ pair_store = NoPair
    /\ fc = IdleRefresh
    /\ cache_total_ids = NoIds
    /\ voter_chain = NoChain
    /\ votes = NoVotes
    /\ pairs_data = <<>>
    /\ VotersIdle

NextPair ==
    \/ FromChainBegin
    \/ FromChainCreate
    \/ SyncupGauge

SpecPair == InitPair /\ [][NextPair]_vars

InitVotes ==
    /\ Configured(DefaultConfig)
    /\ world = FreeWorld
    /\ assets_json = NoSnapshot
    /\ token_store = NoTokens
    /\ zero_price_tokens = {}
    /\ upd = Idle
    /\ routed = NoRouted
    /\ fanout = NoFanout
    /\ pair_store = NoPair
    /\ fc = IdleRefresh
    /\ cache_total_ids \in {NoIds} \cup {CachedIds(n) : n \in 0..(MaxIds + 1)}
    /\ voter_chain \in VoterChains
    /\ votes = NoVotes
    /\ pairs_data = <<>>
    /\ VotersIdle

NextVotes == GetVotesCasted

SpecVotes == InitVotes /\ [][NextVotes]_vars

\* Lists of up to MaxRoutes intermediates: well formed, empty or malformed
RouteAddresses == {"0xaxl", "0xblue", "", "bad"}
RouteLists == UNION {[1..n -> RouteAddresses] : n \in 0..MaxRoutes}

InitRoutes ==
    /\ Configured(DefaultConfig)
    /\ world = FreeWorld
    /\ assets_json = NoSnapshot
    /\ token_store = NoTokens
    /\ zero_price_tokens = {}
    /\ upd = Idle
    /\ \E token_addresses \in RouteLists :
       \E route \in [RoutedAddresses(token_addresses) -> ChainOutcomes] :
          routed = [pc |-> "called", token_addresses |-> token_addresses,
                    route |-> route,
                    stablecoin |-> TokenEntry(RInt(1), StableDecimals),
                    price |-> Raise]
    /\ fanout = NoFanout
    /\ pair_store = NoPair
    /\ fc = IdleRefresh
    /\ cache_total_ids = NoIds
    /\ voter_chain = NoChain
    /\ votes = NoVotes
    /\ pairs_data = <<>>
    /\ VotersIdle

NextRoutes == PriceThroughTokens

SpecRoutes == InitRoutes /\ [][NextRoutes]_vars

\* Resolutions against unchanged chain and feed state
InitRerun ==
    /\ \E c \in Configs : Configured(c)
    /\ world \in FixedWorlds
    /\ assets_json \in ResolverSnapshots
    /\ token_store = NoTokens
    /\ zero_price_tokens = {}
    /\ upd = Idle
    /\ routed = NoRouted
    /\ fanout = NoFanout
    /\ pair_store = NoPair
    /\ fc = IdleRefresh
    /\ cache_total_ids = NoIds
    /\ voter_chain = NoChain
    /\ votes = NoVotes
    /\ pairs_data = <<>>
    /\ VotersIdle

NextRerun ==
    \/ NextPrice
    \/ WriteSnapshot

SpecRerun == InitRerun /\ [][NextRerun]_vars

InitTokenlists ==
    /\ Configured(DefaultConfig)
    /\ world = FreeWorld
    /\ assets_json = NoSnapshot
    /\ token_store = NoTokens
    /\ zero_price_tokens = {}
    /\ upd = Idle
    /\ routed = NoRouted
    /\ fanout = NoFanout
    /\ pair_store = NoPair
    /\ fc = IdleRefresh
    /\ cache_total_ids = NoIds
    /\ voter_chain = NoChain
    /\ votes = NoVotes
    /\ pairs_data = <<>>
    /\ VotersIdle

NextTokenlists ==
    \/ FromTokenlists
    \/ FetchTokenlist
    \/ TaskCreateToken
    \/ TaskUpdatePrice
    \/ CollectFuture
    \/ ReturnAllTokens

SpecTokenlists == InitTokenlists /\ [][NextTokenlists]_vars

\* Every list of up to MaxPools pool records
PoolLists == UNION {[1..n -> PoolRecords] : n \in 0..MaxPools}

InitTally ==
    /\ Configured(DefaultConfig)
    /\ world = FreeWorld
    /\ assets_json = NoSnapshot
    /\ token_store = NoTokens
    /\ zero_price_tokens = {}
    /\ upd = Idle
    /\ routed = NoRouted
    /\ fanout = NoFanout
    /\ pair_store = NoPair
    /\ fc = IdleRefresh
    /\ cache_total_ids = NoIds
    /\ voter_chain = NoChain
    /\ votes = NoVotes
    /\ pairs_data \in PoolLists
    /\ VotersIdle

NextTally == CalcTotalVotes

SpecTally == InitTally /\ [][NextTally]_vars

\* Position 1 voted in the active epoch with balance 2, the others did not
SampleChain ==
    [total_ids |-> MaxIds, active_period |-> 1,
     last_voted |-> [i \in 1..MaxIds |-> IF i = 1 THEN 1 ELSE 0],
     rest_voted |-> 0,
     balance |-> [i \in 1..MaxIds |-> 2]]

SamplePoolLists ==
    { <<>>,
      <<PoolRecord("votes", MaxVotes)>>,
      <<PoolRecord("votes", 1), PoolRecord("nogauge", 0)>> }

InitVoters ==
    /\ Configured(DefaultConfig)
    /\ world = FreeWorld
    /\ assets_json = NoSnapshot
    /\ token_store = NoTokens
    /\ zero_price_tokens = {}
    /\ upd = Idle
    /\ routed = NoRouted
    /\ fanout = NoFanout
    /\ pair_store = NoPair
    /\ fc = IdleRefresh
    /\ cache_total_ids \in {NoIds, CachedIds(MaxIds)}
    /\ voter_chain = SampleChain
    /\ votes = NoVotes
    /\ pairs_data \in SamplePoolLists
    /\ VotersIdle

NextVoters ==
    \/ SyncCompute
    \/ SyncSet
    \/ SyncExpire
    \/ OnGet
    \/ RecacheCompute
    \/ RecacheSet
    \/ KeyExpires

SpecVoters == InitVoters /\ [][NextVoters]_vars

-----------------------------------------------------------------------------
(* Properties of the price resolver (SpecPrice).                           *)

ValidInternal == SelectSeq(INTERNAL_PRICE_ORDER, LAMBDA n : n \in InternalGetters)
ValidExternal == SelectSeq(EXTERNAL_PRICE_ORDER, LAMBDA n : n \in ExternalGetters)

\* The internal strategies can run only against the reference stable asset
RunnableInternal ==
    IF assets_json.present /\ assets_json.data[STABLE_TOKEN_ADDRESS].found
    THEN ValidInternal ELSE <<>>

\* The configured overall order of attempts
AttemptOrder ==
    IF GET_PRICE_INTERNAL_FIRST THEN RunnableInternal \o ValidExternal
    ELSE ValidExternal \o RunnableInternal

CallNames == [i \in 1..Len(upd.calls) |-> upd.calls[i].name]

IsPrefix(s, t) == Len(s) <= Len(t) /\ \A i \in 1..Len(s) : s[i] = t[i]

Resolved == upd.pc \in {"finalize", "done"}

PositiveCalls == {i \in 1..Len(upd.calls) : IsPositive(upd.calls[i].result)}

\* Every configured strategy was attempted and none gave a price > 0
AllStrategiesFailed == CallNames = AttemptOrder /\ PositiveCalls = {}

\* C1: the price returned and persisted is >= 0, and is 0 if and only if every
\* configured strategy failed to give a strictly positive price or the token is
\* on the ignore list.
C1_ZeroIffFailedOrIgnored ==
    upd.pc = "done" =>
        /\ upd.price.n >= 0
        /\ token_store[upd.token.address].price = upd.price
        /\ upd.price = Zero <=>
              (AllStrategiesFailed \/ upd.token.address \in IGNORED_TOKEN_ADDRESSES)

\* C2: once a strategy has returned a strictly positive price, no later strategy
\* of either family is invoked: a positive result is the last call of the
\* resolution, which then only finalizes.
C2_ShortCircuit ==
    \A i \in PositiveCalls : i = Len(upd.calls) /\ Resolved

C2_Witness ==
    /\ upd.pc = "done"
    /\ Len(upd.calls) = 1
    /\ PositiveCalls = {1}
    /\ Len(AttemptOrder) >= 3

\* C3: the attempts follow the configured order: the family chosen by
\* GET_PRICE_INTERNAL_FIRST first, each family in the order of its list, none
\* skipped; the accepted price is the one of the first strategy in that order
\* that gave a strictly positive price, and 0 is returned only after all of them.
C3_StrategyOrder ==
    /\ IsPrefix(CallNames, AttemptOrder)
    /\ \A i, j \in 1..Len(upd.calls) :
          i < j /\ upd.calls[i].family # upd.calls[j].family =>
            upd.calls[i].family = (IF GET_PRICE_INTERNAL_FIRST THEN "internal"
                                                               ELSE "external")
    /\ Resolved /\ ~IsIgnored(upd.token) =>
          IF PositiveCalls = {}
          THEN upd.price = Zero /\ CallNames = AttemptOrder
          ELSE \E i \in PositiveCalls :
                 /\ \A j \in PositiveCalls : i <= j
                 /\ upd.price = upd.calls[i].result.val

C3_Witness ==
    /\ upd.pc = "done"
    /\ Len(upd.calls) >= 3
    /\ upd.calls[1].family # upd.calls[Len(upd.calls)].family
    /\ PositiveCalls = {Len(upd.calls)}
    /\ RPos(upd.price)

\* C4: for a token on the ignore list no strategy is invoked and the price
\* returned and persisted is 0.
C4_IgnoredTokenGetsZero ==
    upd.token.address \in IGNORED_TOKEN_ADDRESSES =>
        /\ upd.calls = <<>>
        /\ upd.pc = "done" =>
              upd.price = Zero /\ token_store[upd.token.address].price = Zero

ExternalCalls == SelectSeq(upd.calls, LAMBDA c : c.family = "external")

\* A feed answer that carries no strictly positive price
NoPriceResponse(r) == r.kind # "price" \/ r.price <= 0

C21_BackendReturnsFeedPrice ==
    \A j \in 1..Len(ExternalCalls) :
        upd.responses[j].kind = "price" /\ upd.responses[j].price > 0 =>
            ExternalCalls[j].result = Value(RInt(upd.responses[j].price))

\* The same for the three backends other than DexGuru
C21_OtherBackendsReturnFeedPrice ==
    \A j \in 1..Len(ExternalCalls) :
        /\ upd.responses[j].kind = "price" /\ upd.responses[j].price > 0
        /\ ExternalCalls[j].name # "_get_price_from_dexguru"
        => ExternalCalls[j].result = Value(RInt(upd.responses[j].price))

-----------------------------------------------------------------------------
(* Properties of repeated resolutions (SpecRerun).                         *)

\* C23: a second _update_price of the same token against unchanged chain and
\* feed answers gives the price of the first, whether or not the token registry
\* snapshot was written to the cache in between.
C23_SamePriceTwice ==
    upd.pc \in {"finalize", "done"} /\ upd.previous.kind = "value" =>
        upd.price = upd.previous.val

-----------------------------------------------------------------------------
(* Properties of the token-list fan-out (SpecTokenlists).                  *)

ReturnedAddresses ==
    {fanout.all_tokens[i].address : i \in 1..Len(fanout.all_tokens)}

ValidAddresses(l) ==
    {TokensOf(l)[i].address : i \in {j \in 1..Len(TokensOf(l)) : TokensOf(l)[j].valid}}

\* C22: from_tokenlists returns only after every token-list task has returned
\* or raised; every token it returns has completed its price resolution; and
\* the tokens of a task that ran to its end are all returned, whatever happened
\* to the other tasks.
C22_FanInBarrier ==
    fanout.pc = "returned" =>
        /\ \A l \in TOKENLISTS : fanout.tasks[l].pc \in {"done", "failed"}
        /\ \A i \in 1..Len(fanout.all_tokens) : fanout.all_tokens[i].resolved
        /\ \A l \in TOKENLISTS :
              fanout.tasks[l].pc = "done" /\ fanout.tasks[l].idx > Len(TokensOf(l)) =>
                  ValidAddresses(l) \subseteq ReturnedAddresses
        /\ \A l \in TOKENLISTS :
              fanout.tasks[l].pc = "failed" =>
                  ValidAddresses(l) \cap ReturnedAddresses = {}

C22_Witness ==
    /\ fanout.pc = "returned"
    /\ fanout.tasks["listA"].pc = "failed"
    /\ fanout.tasks["listA"].tokens # <<>>
    /\ fanout.tasks["listB"].pc = "done"
    /\ fanout.tasks["listC"].pc = "done"
    /\ ReturnedAddresses = {"0xb1", "0xc1", "0xc2"}

-----------------------------------------------------------------------------
(* Properties of routed-through-set pricing (SpecRoutes).                  *)

\* The positions of the list whose two-leg route gave a positive amount
SucceededRoutes ==
    {i \in 1..Len(routed.token_addresses) :
        /\ routed.token_addresses[i] \in DOMAIN routed.route
        /\ routed.route[routed.token_addresses[i]].kind = "amount"
        /\ routed.route[routed.token_addresses[i]].amount > 0}

RECURSIVE AmountOver(_)
AmountOver(positions) ==
    IF positions = {} THEN 0
    ELSE LET i == CHOOSE x \in positions : TRUE
         IN  routed.route[routed.token_addresses[i]].amount
             + AmountOver(positions \ {i})

\* C18: _get_price_through_tokens never raises for a list and returns the sum,
\* in units of the stable asset, over exactly the intermediates whose route gave
\* a positive amount; a route that raises, a non-tuple, a non-positive amount and
\* an empty or malformed address add nothing and do not stop the others.
C18_SumOfSucceededRoutes ==
    routed.pc = "returned" =>
        /\ routed.price.kind = "value"
        /\ routed.price.val = Frac(AmountOver(SucceededRoutes),
                                   Pow10(routed.stablecoin.decimals))

C18_Witness ==
    /\ routed.pc = "returned"
    /\ routed.token_addresses = <<"0xaxl", "bad", "0xblue">>
    /\ routed.route["0xaxl"].kind = "raise"
    /\ routed.route["0xblue"] = ChainOutcome("amount", 10)
    /\ routed.price = Value(RInt(1))

-----------------------------------------------------------------------------
(* Properties of the pool refresh (SpecPair).                              *)

Refreshing == fc.pc # "idle"
Refreshed == fc.pc \in {"done", "raised"}

Priced(token) == token.found /\ RPos(token.price)
Value0 == IF Priced(fc.token0) THEN RMul(fc.data.reserve0, fc.token0.price) ELSE Zero
Value1 == IF Priced(fc.token1) THEN RMul(fc.data.reserve1, fc.token1.price) ELSE Zero

\* C5: with both tokens priced the TVL is reserve0 * price0 + reserve1 * price1,
\* not doubled; with neither priced it is 0; a token without a strictly positive
\* price adds nothing; the TVL is never negative.
C5_Tvl ==
    Refreshing =>
        /\ Priced(fc.token0) /\ Priced(fc.token1) =>
              fc.data.tvl = RAdd(RMul(fc.data.reserve0, fc.token0.price),
                                 RMul(fc.data.reserve1, fc.token1.price))
        /\ ~Priced(fc.token0) /\ ~Priced(fc.token1) => fc.data.tvl = Zero
        /\ fc.data.tvl \in {RAdd(Value0, Value1),
                             RMul(RAdd(Value0, Value1), RInt(2))}
        /\ fc.data.tvl.n >= 0
        /\ pair_store.exists => pair_store.tvl = fc.data.tvl

C5_Witness ==
    /\ fc.pc = "done"
    /\ fc.data.reserve0 = RInt(100) /\ fc.token0.price = RInt(2)
    /\ fc.data.reserve1 = RInt(50) /\ fc.token1.price = RInt(3)
    /\ pair_store.tvl = RInt(350)

\* The decimal-normalized reserve of a constituent token
DecimalReserve(raw, token) == Frac(raw, Pow10(token.decimals))

\* C6: when exactly one constituent token has a strictly positive price, the
\* other having price 0 or not being in the registry, the TVL is twice the
\* priced side's decimal-normalized reserve times its price.
C6_SingleSidedDoubling ==
    Refreshing =>
        /\ Priced(fc.token0) /\ ~Priced(fc.token1) =>
              fc.data.tvl = RMul(RInt(2), RMul(DecimalReserve(fc.chain.reserve0, fc.token0),
                                               fc.token0.price))
        /\ Priced(fc.token1) /\ ~Priced(fc.token0) =>
              fc.data.tvl = RMul(RInt(2), RMul(DecimalReserve(fc.chain.reserve1, fc.token1),
                                               fc.token1.price))

\* C7: with a TVL other than 0, a gauge read and the reward token found,
\* apr = reward * price / tvl * 100 * 365; with a TVL of 0 the apr stays 0
\* whatever the gauge.
C7_Apr ==
    fc.pc = "done" =>
        /\ (/\ pair_store.tvl # Zero
            /\ fc.gauge.kind = "gauge"
            /\ Token_find(DEFAULT_TOKEN_ADDRESS).found) =>
              RMul(pair_store.apr, pair_store.tvl) =
                RMul(RInt(fc.gauge.reward * 100 * 365),
                     Token_find(DEFAULT_TOKEN_ADDRESS).price)
        /\ pair_store.tvl = Zero => pair_store.apr = Zero

C7_Witness ==
    /\ fc.pc = "done"
    /\ pair_store.tvl = RInt(1000)
    /\ fc.gauge = GaugeOutcome("gauge", 10)
    /\ Token_find(DEFAULT_TOKEN_ADDRESS).price = RInt(5)
    /\ pair_store.apr = RInt(1825)

\* C8: after a refresh, a pool whose on-chain gauge address is the zero address
\* or absent is stored with gauge_address none and apr 0, and no gauge was read.
C8_NoGauge ==
    Refreshed /\ fc.chain.gauge_address \in {ADDRESS_ZERO, NONE} =>
        /\ pair_store.exists
        /\ pair_store.gauge_address = NONE
        /\ pair_store.apr = Zero
        /\ ~fc.gauge_read

C8_Witness ==
    /\ fc.pc = "done"
    /\ fc.chain.gauge_address = ADDRESS_ZERO
    /\ pair_store.tvl # Zero
    /\ Token_find(DEFAULT_TOKEN_ADDRESS).found

\* C9 as claimed: the gauge is read only if the TVL is not 0 and the gauge
\* address is not the zero/none sentinel.
C9_GaugeReadNeedsTvl ==
    fc.gauge_read =>
        fc.data.tvl # Zero /\ fc.chain.gauge_address \notin {ADDRESS_ZERO, NONE}

\* C9 amended: the gauge is read exactly when the gauge address is not the
\* zero/none sentinel, whatever the TVL; with a TVL of 0 only the apr
\* computation is skipped and the apr stays 0.
C9_GaugeReadIffLive ==
    /\ fc.gauge_read => fc.chain.gauge_address \notin {ADDRESS_ZERO, NONE}
    /\ Refreshed =>
          (fc.gauge_read <=> fc.chain.gauge_address \notin {ADDRESS_ZERO, NONE})
    /\ Refreshed /\ fc.data.tvl = Zero => pair_store.apr = Zero

C9_Witness ==
    /\ fc.pc = "done"
    /\ fc.gauge_read
    /\ fc.gauge = GaugeOutcome("gauge", 10)
    /\ fc.data.tvl = Zero

\* C16: the pool record is replaced as a whole: once this cycle's record is in
\* the store no later save rewrites it, so no reader meets the record with this
\* cycle's TVL and an APR still to be derived.
C16_NoIncrementalSave ==
    [][pair_store.exists /\ pair_store'.exists => pair_store' = pair_store]_vars

\* C17: Pair.from_chain never raises past its boundary: when the batched pool
\* read or the gauge read fails it still returns a pool, stored with TVL and APR
\* of 0 where they could not be derived.
C17_FromChainNeverRaises ==
    /\ fc.pc \notin {"raised", "read_failed"}
    /\ fc.pc = "done" => pair_store.exists

\* The cached snapshot has no entry for the reference stable asset
NoStableEntry ==
    ~assets_json.present \/ ~assets_json.data[STABLE_TOKEN_ADDRESS].found

\* C27: when the cached snapshot is absent or has no entry for the reference
\* stable asset, get_price_internal_source returns 0 without invoking any
\* internal strategy and without raising: the run goes on to the next family
\* or ends, and a positive price is the one an external backend returned.
C27_NoStableNoInternalPrice ==
    NoStableEntry =>
        /\ \A i \in 1..Len(upd.calls) : upd.calls[i].family = "external"
        /\ ~(upd.pc = "internal" /\ upd.idx >= 1)
        /\ upd.pc \in {"idle", "internal", "external", "exhausted", "finalize", "done"}
        /\ upd.pc = "done" /\ FamilyAt(2) = "internal" /\ ~IsIgnored(upd.token) =>
              \/ RPos(upd.price) /\ upd.ext_return = Value(upd.price)
              \/ upd.price = Zero /\ upd.ext_return = Value(Zero) /\ upd.zero_recorded
        /\ upd.pc = "done" /\ RPos(upd.price) =>
              /\ upd.calls # <<>>
              /\ upd.calls[Len(upd.calls)].family = "external"
              /\ upd.calls[Len(upd.calls)].result = Value(upd.price)

C27_Witness ==
    /\ assets_json.present
    /\ NoStableEntry
    /\ GET_PRICE_INTERNAL_FIRST
    /\ INTERNAL_PRICE_ORDER # <<>>
    /\ upd.pc = "done"
    /\ upd.fam = 2
    /\ RPos(upd.price)
    /\ Len(upd.calls) >= 1

\* The other case: no snapshot at all, the internal family second
C27_WitnessAbsent ==
    /\ ~assets_json.present
    /\ ~GET_PRICE_INTERNAL_FIRST
    /\ upd.pc = "done"
    /\ upd.fam = 2
    /\ upd.zero_recorded
    /\ \A i \in 1..Len(upd.calls) : upd.calls[i].family = "external"

\* C26: a token's persisted price is changed only by the finalization step of
\* its own _update_price; a lookup through Token.find, by the resolver for the
\* reference stable asset or by the pool refresh, leaves every persisted price
\* as it was.
C26_FindLeavesPricesUnchanged ==
    [][\A a \in Addresses :
          token_store[a].found /\ token_store'[a].price # token_store[a].price =>
              upd.pc = "finalize" /\ a = upd.token.address]_vars

\* The lookups apart, only finalization writes a persisted price
C26_OnlyFindAndFinalizeWrite ==
    [][\A a \in Addresses :
          token_store'[a] # token_store[a] =>
              \/ upd.pc = "finalize" /\ a = upd.token.address
              \/ upd.pc = "internal" /\ upd.idx = 0 /\ a = STABLE_TOKEN_ADDRESS
                    /\ token_store'[a] = Token_find(a)]_vars

-----------------------------------------------------------------------------
(* Properties of the votes-cast pipeline (SpecVotes).                      *)

\* The positions in 1..total_ids that voted in the active epoch
VotersOfEpoch ==
    {id \in 1..votes.total_ids :
        ChainLastVoted(voter_chain, id) >= voter_chain.active_period}

\* C10: a balance call is issued for position id exactly when id is in
\* 1..total_ids and its last-voted time is >= the active epoch boundary; on
\* success votes_casted is the sum of those positions' balances and voted_ids
\* maps exactly those positions to their balances.
C10_BalanceFilter ==
    /\ votes.balance_calls \subseteq VotersOfEpoch
    /\ votes.stage = 3 => votes.balance_calls = VotersOfEpoch
    /\ votes.pc = "returned" =>
          /\ votes.stage = 3
          /\ DOMAIN votes.voted_ids = VotersOfEpoch
          /\ \A id \in VotersOfEpoch :
                votes.voted_ids[id] = ChainBalance(voter_chain, id)
          /\ votes.votes_casted = SumBalances(voter_chain, VotersOfEpoch)

C10_Witness ==
    /\ votes.pc = "returned"
    /\ votes.total_ids = MaxIds
    /\ \E a, b, c \in 1..votes.total_ids :
          /\ ChainLastVoted(voter_chain, a) < voter_chain.active_period
          /\ ChainLastVoted(voter_chain, b) = voter_chain.active_period
          /\ ChainLastVoted(voter_chain, c) > voter_chain.active_period
          /\ votes.balance_calls = {b, c}
          /\ votes.votes_casted = ChainBalance(voter_chain, b) + ChainBalance(voter_chain, c)

\* C11: get_votes_casted never raises: every call ends by returning, and when
\* the first batched read, the position-count lookup, the last-voted read, the
\* balance read or the summation fails it returns the fixed count 9980 with no
\* positions; without a failure it returns the computed result.
C11_FallbackOnFailure ==
    votes.pc # "idle" =>
        /\ votes.pc \in {"returned", "fallback"}
        /\ votes.fail # "none" =>
              /\ votes.pc = "fallback"
              /\ votes.votes_casted = FallbackVotesCasted
              /\ votes.voted_ids = <<>>
        /\ votes.fail = "none" => votes.pc = "returned"

C11_Witness ==
    /\ votes.pc = "fallback"
    /\ votes.fail = "sum"
    /\ votes.balance_calls # {}
    /\ votes.votes_casted = FallbackVotesCasted
    /\ votes.voted_ids = <<>>

\* C24: running get_votes_casted twice with unchanged chain state yields the
\* same votes_casted and the same voted-id map, also when the first run began
\* with no cached position count and created it; two runs that both complete
\* agree, and two runs that both fail agree.
C24_SameVotesTwice ==
    /\ votes.pc # "idle"
    /\ votes.previous.kind = "result"
    /\ votes.previous.failed = (votes.fail # "none")
    => /\ votes.votes_casted = votes.previous.votes_casted
       /\ votes.voted_ids = votes.previous.voted_ids

C24_Witness ==
    /\ votes.pc = "returned"
    /\ votes.previous.kind = "result"
    /\ ~votes.previous.failed
    /\ votes.previous.uncached
    /\ ~votes.uncached
    /\ votes.total_ids = DefaultTotalIds
    /\ cache_total_ids = CachedIds(DefaultTotalIds)
    /\ MaxIds + 1 \in DOMAIN votes.voted_ids
    /\ votes.voted_ids = votes.previous.voted_ids

-----------------------------------------------------------------------------
(* Properties of the vote-weight total (SpecTally).                        *)

\* A record that is neither a pool with votes nor a pool lacking the field
Malformed(pair) == pair.shape \in {"badvotes", "badgauge"}

\* The votes a record contributes when malformed records are skipped
RECURSIVE WellFormedVotes(_, _)
WellFormedVotes(data, i) ==
    IF i > Len(data) THEN 0
    ELSE (IF data[i].shape = "votes" THEN data[i].votes ELSE 0)
         + WellFormedVotes(data, i + 1)

\* C12: calc_total_votes returns the sum of the gauge votes of the pool records
\* that have the field, 0 for records lacking it; a malformed record is skipped
\* and the others are still summed; the sentinel 0 is returned only when the
\* whole computation (Pairs.serialize) fails.
C12_MalformedSkipped ==
    tally.pc = "returned" =>
        IF tally.serialize_raised THEN tally.total_votes = 0
        ELSE tally.total_votes = WellFormedVotes(pairs_data, 1)

\* The total on lists without a malformed record
C12_SumOfWellFormed ==
    tally.pc = "returned" /\ ~tally.serialize_raised
      /\ (\A i \in 1..Len(pairs_data) : ~Malformed(pairs_data[i])) =>
        tally.total_votes = WellFormedVotes(pairs_data, 1)

\* C13: the position ids scanned by the pipeline are 1..n for the live count n
\* that stage 1 fetched; the cached count serves only when the live count could
\* not be fetched.
C13_LiveCountScanned ==
    votes.stage >= 2 =>
        /\ votes.total_ids = voter_chain.total_ids
        /\ votes.last_voted_calls = 1..voter_chain.total_ids

-----------------------------------------------------------------------------
(* Properties of the voters:json key (SpecVoters).                         *)

\* No sync and no request is part-way through
Quiescent == job.pc \in {"idle", "done"} /\ req.pc \in {"idle", "responded"}

\* C14: after any sequence of complete sync, recache and on_get operations the
\* voters:json key, if present, carries an expiry.
C14_KeyHasTtl ==
    Quiescent /\ voters_json.present => voters_json.ttl

\* C15: whenever the content of voters:json changes, the new content is the
\* whole snapshot computed by the writing sync or recache: total_votes,
\* votes_casted and voted_ids all of its computation, none left from before.
C15_WholeSnapshotWritten ==
    [][voters_json'.present /\ voters_json'.value # voters_json.value =>
          \/ job.pc = "set" /\ voters_json'.value = job.voters
          \/ req.pc = "set" /\ voters_json'.value = req.voters]_vars

C15_Witness ==
    /\ voters_json.present
    /\ job.pc = "expire"
    /\ req.pc = "set"
    /\ req.voters.total_votes # job.voters.total_votes
    /\ req.voters.votes_casted # job.voters.votes_casted
    /\ voters_json.value = job.voters

\* The documented fields of a vote-tally snapshot
VoterFields == {"total_votes", "votes_casted", "voted_ids"}
HasAllFields(v) == DOMAIN v = VoterFields

\* The dict v built from the computations t and c: every field present, the
\* fallback value in place of each failed computation
Substituted(v, t, c) ==
    /\ HasAllFields(v)
    /\ v.total_votes = t.total_votes
    /\ t.serialize_raised => v.total_votes = 0
    /\ c.fail # "none" => v.votes_casted = FallbackVotesCasted /\ v.voted_ids = <<>>
    /\ c.fail = "none" => v.votes_casted = c.votes_casted /\ v.voted_ids = c.voted_ids

\* C25: every snapshot written to voters:json by sync or recache and every
\* body returned by on_get has the three fields total_votes, votes_casted and
\* voted_ids; where a computation failed its fallback value (0, 9980, no
\* positions) stands in the field, which is never left out.
C25_AllFieldsPresent ==
    /\ [](/\ voters_json.present => HasAllFields(voters_json.value)
          /\ req.pc = "responded" => HasAllFields(req.media))
    /\ [][/\ job'.pc = "set" /\ job.pc # "set" => Substituted(job'.voters, tally', votes')
          /\ req'.pc = "set" /\ req.pc # "set" => Substituted(req'.voters, tally', votes')
          /\ voters_json'.present /\ voters_json'.value # voters_json.value =>
                voters_json'.value \in {job.voters, req.voters}
          /\ req'.pc = "responded" /\ req.pc = "set" =>
                req'.media \in {req.voters, RecacheFallback}]_vars

C25_Witness ==
    /\ voters_json.present
    /\ tally.serialize_raised /\ votes.fail # "none"
    /\ voters_json.value = RecacheFallback
    /\ job.pc = "done" /\ job.voters = voters_json.value
    /\ req.pc = "responded" /\ req.media = voters_json.value

\* The steps of one request: the decision of on_get on the key it read, and the
\* end of the recache it called
OnGetDecides ==
    req.pc \in {"idle", "responded", "raised"} /\ req' # req /\ req'.handler = "on_get"
OnGetRecached == req.pc = "set" /\ req.handler = "on_get" /\ req'.pc = "responded"
KeyIsStale == ~voters_json.present \/ voters_json.value.total_votes = 0

\* on_get recaches exactly when the key it read is missing or has total 0 and
\* otherwise serves the stored snapshot as it is, computing nothing; a failed
\* recache leaves the key as it was and the fallback is the response
RecacheDecision ==
    /\ OnGetDecides /\ req'.pc # "raised" =>
          /\ req'.pc = "recache" <=> KeyIsStale
          /\ req'.pc = "responded" <=> ~KeyIsStale
          /\ req'.pc = "responded" =>
                /\ req'.media = voters_json.value
                /\ UNCHANGED <<votes, tally, cache_total_ids, voters_json>>
    /\ OnGetRecached =>
          \/ voters_json' = CacheSet(voters_json, req.voters) /\ req'.media = req.voters
          \/ voters_json' = voters_json /\ req'.media = RecacheFallback

\* C28: on_get calls recache exactly when voters:json is missing or its cached
\* total_votes is 0 and otherwise serves the cached snapshot verbatim without
\* recomputation; when recache fails the key is left unchanged and the response
\* is the fallback {0, 9980, no positions}; the response status is always 200.
C28_OnGetAlways200 ==
    /\ [][RecacheDecision]_vars
    /\ [](req.handler = "on_get" /\ req.pc \in {"responded", "raised"} =>
              req.status = HTTP_200)

\* What holds of every request whose read of the key succeeded
C28_OnGetWhenCacheAnswers ==
    /\ [][RecacheDecision]_vars
    /\ [](req.handler = "on_get" /\ req.pc = "responded" => req.status = HTTP_200)

\* A request met a stored total of 0, its recache failed on the write
C28_RecacheFailed ==
    /\ req.handler = "on_get" /\ req.pc = "responded"
    /\ req.media = RecacheFallback
    /\ voters_json.present /\ voters_json.value.total_votes = 0
    /\ voters_json.value # RecacheFallback
    /\ req.voters.total_votes # 0

====
